---- MODULE Spec2Model ----
(***************************************************************************)
(* State-machine model of aiida_vasp.data.potcar: the two node classes     *)
(* PotcarFileData (the POTCAR file itself, "FullRecord") and PotcarData    *)
(* (its metadata, "ShadowRecord"), the attribute queries of                *)
(* PotcarMetadataMixin, the uniqueness checks made before storing, and     *)
(* the writing / reading of concatenated POTCAR files, the POTCAR families *)
(* and the command that uploads a folder as a family; and of               *)
(* aiida_vasp.utils.io.incar: the writing of a parameter dictionary as the *)
(* text of an INCAR file.                                                  *)
(*                                                                         *)
(* The Db is two sets of stored nodes.  A stored node is a record of its   *)
(* pk and its attributes; pks are handed out by one counter and are never  *)
(* used twice, so two nodes with the same attributes are two nodes.        *)
(***************************************************************************)
EXTENDS Integers, Sequences, FiniteSets, TLC

\* Number of POTCAR files that carry the same header (In_d, PE) and differ only in their data.
MaxData == 2
\* Node creation is allowed while the next pk is at most MaxPk.
MaxPk == 3
\* Longest list of potentials written to one POTCAR file.
MaxW == 2

(***************************************************************************)
(* POTCAR files.  A file is a sequence of lines; a line is a tuple whose   *)
(* first entry is its keyword.  The header carries TITEL and LEXCH, the    *)
(* last line is the end-of-dataset marker.                                 *)
(***************************************************************************)
EndOfDataset == <<"END">>

InD == <<"In", "d">>

As == <<"As">>

MkPotcar(symbol, lexch, data) ==
    << <<"TITEL", <<"PAW", symbol>> >>, <<"LEXCH", lexch>>, <<"DATA", data>>, EndOfDataset >>

\* The files on disk: two or more In_d/PE files with different data, one In_d/CA, one As/PE.
PotcarFiles ==
    {<<InD, "PE", d>> : d \in 1..MaxData} \cup {<<InD, "CA", 1>>, <<As, "PE", 1>>}

Payloads == {MkPotcar(f[1], f[2], f[3]) : f \in PotcarFiles}

\* pymatgen's table from the LEXCH keyword to the functional class.
FunctionalTags == [PE |-> "PBE", CA |-> "LDA"]

Keyword(contents, key) ==
    contents[CHOOSE i \in 1..Len(contents) : contents[i][1] = key][2]

\* md5_file: a digest of the bytes of the file, free of collisions on the files above.
\* Every line contributes one digit of a positional code.
LineCode(line) ==
    CASE line[1] = "TITEL" -> Len(line[2][2])
      [] line[1] = "LEXCH" -> (IF line[2] = "PE" THEN 3 ELSE 4)
      [] line[1] = "DATA"  -> line[2]
      [] OTHER             -> 0

RECURSIVE Md5Digest(_, _)
Md5Digest(contents, acc) ==
    IF contents = <<>> THEN acc
    ELSE Md5Digest(Tail(contents), acc * 10 + LineCode(Head(contents)))

Md5File(contents) == Md5Digest(contents, 0)

\* The record of a call: the operation and its argument, the error it raised, whether
\* it created a node, the node and what else it returned, whether it repeats a call.
Call(op, arg, err, created, node, out, again) ==
    [op |-> op, arg |-> arg, err |-> err, created |-> created, node |-> node,
     out |-> out, again |-> again]

(***************************************************************************)
(* Nodes.                                                                  *)
(***************************************************************************)
MetaAttrs == {"md5", "title", "functional", "element", "symbol"}

\* pk of a node that is not stored.
Unstored == 0

NoNode == [pk |-> Unstored]

\* PotcarFileData(file=filepath): set_file -> add_file.  The archive holds the file.
AddFile(src) ==
    [pk         |-> Unstored,
     archive    |-> <<src>>,
     md5        |-> Md5File(src),
     title      |-> Keyword(src, "TITEL"),
     functional |-> FunctionalTags[Keyword(src, "LEXCH")],
     element    |-> Keyword(src, "TITEL")[2][1],
     symbol     |-> Keyword(src, "TITEL")[2]]

\* PotcarFileData(): a node that holds no file yet and has none of the attributes.
EmptyNode == [pk |-> Unstored, archive |-> <<>>]

\* Faulty variant: a second file takes the place of the first.
NodeAddFileOverwrites(node, src) ==
    [err |-> "none", node |-> [AddFile(src) EXCEPT !.pk = node.pk]]

\* node.add_file(src): a node can only hold one POTCAR file.
NodeAddFile(node, src) ==
    IF node.archive # <<>>
    THEN [err |-> "AttributeError", node |-> node]
    ELSE [err |-> "none", node |-> [AddFile(src) EXCEPT !.pk = node.pk]]

\* Faulty variant: the symbol is made from the element, not copied.
SetPotcarFileNodeSymbolFromElement(potcar_file_node) ==
    [pk         |-> Unstored,
     md5        |-> potcar_file_node.md5,
     title      |-> potcar_file_node.title,
     functional |-> potcar_file_node.functional,
     element    |-> potcar_file_node.element,
     symbol     |-> <<potcar_file_node.element>>]

\* PotcarData(potcar_file_node=file_node): copies the five attributes.
SetPotcarFileNode(potcar_file_node) ==
    [pk         |-> Unstored,
     md5        |-> potcar_file_node.md5,
     title      |-> potcar_file_node.title,
     functional |-> potcar_file_node.functional,
     element    |-> potcar_file_node.element,
     symbol     |-> potcar_file_node.symbol]

\* node.get_attrs()
GetAttrs(node) == [a \in MetaAttrs |-> node[a]]

\* get_attrs() with 'md5' popped
OtherAttrs(node) == [a \in MetaAttrs \ {"md5"} |-> node[a]]

\* Faulty variant: the file object ends before the last line of the file.
GetFileObjTruncated(node) == SubSeq(node.archive[1], 1, Len(node.archive[1]) - 1)

\* archive.extractfile(archive.members[0])
GetFileObj(node) == node.archive[1]

(***************************************************************************)
(* Queries of PotcarMetadataMixin over the stored nodes of one class.      *)
(***************************************************************************)
QueryByAttrs(nodes, kwargs) ==
    {n \in nodes : \A a \in DOMAIN kwargs : n[a] = kwargs[a]}

\* Faulty variant: the first match, or nothing, instead of exactly one match.
FindFirst(nodes, kwargs) ==
    IF QueryByAttrs(nodes, kwargs) = {}
    THEN [err |-> "none", node |-> NoNode]
    ELSE [err |-> "none", node |-> CHOOSE n \in QueryByAttrs(nodes, kwargs) : TRUE]

\* query_builder.one()[0]
Find(nodes, kwargs) ==
    IF Cardinality(QueryByAttrs(nodes, kwargs)) = 1
    THEN [err |-> "none", node |-> CHOOSE n \in QueryByAttrs(nodes, kwargs) : TRUE]
    ELSE IF QueryByAttrs(nodes, kwargs) = {}
         THEN [err |-> "NotFound", node |-> NoNode]
         ELSE [err |-> "AmbiguousMatch", node |-> NoNode]

\* Faulty variant: more than one match is asked for.
ExistsSeveral(nodes, kwargs) == Cardinality(QueryByAttrs(nodes, kwargs)) > 1

Exists(nodes, kwargs) == Cardinality(QueryByAttrs(nodes, kwargs)) >= 1

\* Faulty variant: only the md5 is checked, not the other attributes.
VerifyUniqueMd5Only(nodes, node) ==
    IF Exists(nodes, [md5 |-> node.md5]) THEN "UniquenessError" ELSE "none"

\* PotcarMetadataMixin.verify_unique, as PotcarData uses it
VerifyUnique(nodes, node) ==
    IF Exists(nodes, [md5 |-> node.md5])
    THEN "UniquenessError"
    ELSE IF Exists(nodes, OtherAttrs(node))
         THEN "UniquenessError"
         ELSE "none"

\* Faulty variant: the check before storing a PotcarFileData is left out.
FileVerifyUniqueSkipped(nodes, node) == "none"

\* PotcarFileData.verify_unique
FileVerifyUnique(nodes, node) ==
    IF Exists(nodes, [md5 |-> node.md5])
    THEN "UniquenessError"
    ELSE IF Exists(nodes, OtherAttrs(node))
         THEN "UniquenessError"
         ELSE "none"

(***************************************************************************)
(* Storing.  Each operator takes the Db (files, potcars, pk: the next pk)  *)
(* and returns the Db after the call with the call's result.  The result   *)
(* of a call made inside another is bound once, as the one element of a    *)
(* singleton set.                                                          *)
(***************************************************************************)
\* PotcarData.store
PotcarStore(potcars, pk, node) ==
    IF VerifyUnique(potcars, node) # "none"
    THEN [potcars |-> potcars, pk |-> pk, node |-> node, err |-> VerifyUnique(potcars, node)]
    ELSE [potcars |-> potcars \cup {[node EXCEPT !.pk = pk]}, pk |-> pk + 1,
          node |-> [node EXCEPT !.pk = pk], err |-> "none"]

\* Faulty variant: the PotcarData is made from the file node without looking for it first.
PotcarGetOrCreateAlwaysCreates(potcars, pk, file_node) ==
    CHOOSE r \in {[potcars |-> s.potcars, pk |-> s.pk, node |-> s.node,
                   created |-> TRUE, err |-> s.err] :
                  s \in {PotcarStore(potcars, pk, SetPotcarFileNode(file_node))}} : TRUE

\* PotcarData.get_or_create
PotcarGetOrCreate(potcars, pk, file_node) ==
    IF Exists(potcars, [md5 |-> file_node.md5])
    THEN CHOOSE r \in {[potcars |-> potcars, pk |-> pk, node |-> f.node,
                        created |-> FALSE, err |-> f.err] :
                       f \in {Find(potcars, [md5 |-> file_node.md5])}} : TRUE
    ELSE CHOOSE r \in {[potcars |-> s.potcars, pk |-> s.pk, node |-> s.node,
                        created |-> TRUE, err |-> s.err] :
                       s \in {PotcarStore(potcars, pk, SetPotcarFileNode(file_node))}} : TRUE

\* Faulty variant: store() does not make sure that the PotcarData exists.
FileStoreWithoutPotcar(files, potcars, pk, node) ==
    IF FileVerifyUnique(files, node) # "none"
    THEN [files |-> files, potcars |-> potcars, pk |-> pk, node |-> node,
          err |-> FileVerifyUnique(files, node)]
    ELSE [files |-> files \cup {[node EXCEPT !.pk = pk]}, potcars |-> potcars,
          pk |-> pk + 1, node |-> [node EXCEPT !.pk = pk], err |-> "none"]

\* PotcarFileData.store: the PotcarData first, then the uniqueness check, then the insert
FileStore(files, potcars, pk, node) ==
    CHOOSE r \in
        {IF g.err # "none"
         THEN [files |-> files, potcars |-> g.potcars, pk |-> g.pk, node |-> node, err |-> g.err]
         ELSE IF FileVerifyUnique(files, node) # "none"
              THEN [files |-> files, potcars |-> g.potcars, pk |-> g.pk, node |-> node,
                    err |-> FileVerifyUnique(files, node)]
              ELSE [files |-> files \cup {[node EXCEPT !.pk = g.pk]}, potcars |-> g.potcars,
                    pk |-> g.pk + 1, node |-> [node EXCEPT !.pk = g.pk], err |-> "none"] :
         g \in {PotcarGetOrCreate(potcars, pk, node)}} : TRUE

\* Faulty variant: get_or_create does not look for the file first and always creates.
FileGetOrCreateAlwaysCreates(files, potcars, pk, filepath) ==
    CHOOSE r \in {[files |-> s.files, potcars |-> s.potcars, pk |-> s.pk, node |-> s.node,
                   created |-> TRUE, err |-> s.err] :
                  s \in {FileStore(files, potcars, pk, AddFile(filepath))}} : TRUE

\* PotcarFileData.get_or_create
FileGetOrCreate(files, potcars, pk, filepath) ==
    IF Exists(files, [md5 |-> Md5File(filepath)])
    THEN CHOOSE r \in {[files |-> files, potcars |-> potcars, pk |-> pk, node |-> f.node,
                        created |-> FALSE, err |-> f.err] :
                       f \in {Find(files, [md5 |-> Md5File(filepath)])}} : TRUE
    ELSE CHOOSE r \in {[files |-> s.files, potcars |-> s.potcars, pk |-> s.pk, node |-> s.node,
                        created |-> TRUE, err |-> s.err] :
                       s \in {FileStore(files, potcars, pk, AddFile(filepath))}} : TRUE

\* The PotcarData that corresponds to the PotcarFileData a get_or_create returned.
CorrespondingPotcar(f) ==
    IF f.err # "none"
    THEN [files |-> f.files, potcars |-> f.potcars, pk |-> f.pk, node |-> NoNode,
          file_node |-> NoNode, created |-> f.created, err |-> f.err]
    ELSE CHOOSE r \in {[files |-> f.files, potcars |-> g.potcars, pk |-> g.pk, node |-> g.node,
                        file_node |-> f.node, created |-> f.created, err |-> g.err] :
                       g \in {PotcarGetOrCreate(f.potcars, f.pk, f.node)}} : TRUE

\* Reading a POTCAR file into the Db: get or create the PotcarFileData, then return
\* the corresponding PotcarData, creating it when it does not exist.
IngestPotcar(files, potcars, pk, filepath) ==
    CHOOSE r \in {CorrespondingPotcar(f) :
                  f \in {FileGetOrCreate(files, potcars, pk, filepath)}} : TRUE

\* Faulty variant: the file node is looked up by its element alone.
FindFileNodeByElement(files, potcar_node) == Find(files, [element |-> potcar_node.element])

\* PotcarData.find_file_node
FindFileNode(files, potcar_node) == Find(files, GetAttrs(potcar_node))

(***************************************************************************)
(* PotcarIo / MultiPotcarIo: a potential given as file contents, as a      *)
(* PotcarFileData node or as a PotcarData node, and the POTCAR file that   *)
(* holds several potentials one after the other.                           *)
(***************************************************************************)
\* PotcarIo.from_(source): md5 of the potential and, when available, its contents.
Resolve(files, source) ==
    CASE source.kind = "contents" ->
            [md5 |-> Md5File(source.of), content |-> <<source.of>>]
      [] source.kind = "file_node" ->
            [md5 |-> source.of.md5, content |-> <<GetFileObj(source.of)>>]
      [] source.kind = "potcar_node" ->
            [md5 |-> source.of.md5,
             content |-> IF FindFileNode(files, source.of).err = "none"
                         THEN <<GetFileObj(FindFileNode(files, source.of).node)>>
                         ELSE <<>>]

\* Faulty variant: the md5 of a potential made from a path is taken from the title.
PathPotcarMd5FromTitle(file_node) ==
    [md5 |-> Len(file_node.title[2]), content |-> <<GetFileObj(file_node)>>]

\* The potential made from the node that get_or_create returned for a path.
PathPotcar(file_node) ==
    [md5 |-> file_node.md5, content |-> <<GetFileObj(file_node)>>]

\* PotcarIo(path=...), PotcarIo.from_(source), when called on the Db: a path is read
\* into the Db with get_or_create, after which the node and the file node exist;
\* the other sources leave the Db alone.
PotcarIoFrom(files, potcars, pk, source) ==
    IF source.kind = "path"
    THEN CHOOSE r \in {[files |-> g.files, potcars |-> g.potcars, pk |-> g.pk, err |-> g.err,
                        potcar |-> IF g.err = "none" THEN PathPotcar(g.node) ELSE <<>>] :
                       g \in {FileGetOrCreate(files, potcars, pk, source.of)}} : TRUE
    ELSE [files |-> files, potcars |-> potcars, pk |-> pk, err |-> "none",
          potcar |-> Resolve(files, source)]

\* from_ctor == from_from: two potentials are equal when their md5 are.
PotcarIoEq(a, b) == a.md5 = b.md5

RECURSIVE Concat(_)
Concat(potcars) ==
    IF potcars = <<>> THEN <<>>
    ELSE potcars[1].content[1] \o Concat(Tail(potcars))

\* MultiPotcarIo.write: the contents of the potentials, in the order given.
MultiWrite(potcars) ==
    IF \E i \in 1..Len(potcars) : potcars[i].content = <<>>
    THEN [err |-> "ContentUnavailable", out |-> <<>>]
    ELSE [err |-> "none", out |-> Concat(potcars)]

\* The potentials of a POTCAR file: every run of lines up to and including an
\* end-of-dataset line; lines after the last such line belong to no potential.
RECURSIVE SplitPotcars(_, _)
SplitPotcars(lines, current) ==
    IF lines = <<>> THEN <<>>
    ELSE IF Head(lines) = EndOfDataset
         THEN <<Append(current, Head(lines))>> \o SplitPotcars(Tail(lines), <<>>)
         ELSE SplitPotcars(Tail(lines), Append(current, Head(lines)))

\* MultiPotcarIo.read
MultiRead(files, lines) ==
    [i \in 1..Len(SplitPotcars(lines, <<>>)) |->
        Resolve(files, [kind |-> "contents", of |-> SplitPotcars(lines, <<>>)[i]])]

Md5s(potcars) == [i \in 1..Len(potcars) |-> potcars[i].md5]

(***************************************************************************)
(* POTCAR families.  A family is a group: a name, a description and the    *)
(* PotcarFileData nodes that are its members, kept as the set of their pks.*)
(***************************************************************************)
\* Longest folder that is uploaded.
MaxFolder == 3

\* get_potcar_group(group_name)
GetPotcarGroup(groups, group_name) == CHOOSE g \in groups : g.name = group_name

\* The member nodes of a family.
GroupNodes(files, group) == {f \in files : f.pk \in group.members}

\* Faulty variant: a description that is not given is an error for every family.
TryGrabDescriptionNoLookup(groups, group_name, value) ==
    IF value = <<>> \/ value = <<"">>
    THEN [err |-> "MissingParameter", value |-> value]
    ELSE [err |-> "none", value |-> value]

\* The click callback of --desc.  A value is <<>> when the option is not given and
\* <<d>> when it is given as the string d; "not value" holds for both <<>> and <<"">>.
TryGrabDescription(groups, group_name, value) ==
    IF value = <<>> \/ value = <<"">>
    THEN IF group_name \in {g.name : g \in groups}
         THEN [err |-> "none", value |-> <<GetPotcarGroup(groups, group_name).description>>]
         ELSE [err |-> "MissingParameter", value |-> value]
    ELSE [err |-> "none", value |-> value]

\* Faulty variant: a file that is stored already counts as a new file.
UploadFileCountsExisting(st, file, stop_if_existing) ==
    CHOOSE r \in
        {IF g.err # "none"
         THEN [st EXCEPT !.files = g.files, !.potcars = g.potcars, !.pk = g.pk, !.err = g.err]
         ELSE [files |-> g.files, potcars |-> g.potcars, pk |-> g.pk,
               members |-> st.members \cup {g.file_node.pk},
               num_uploaded |-> st.num_uploaded + 1, err |-> "none"] :
         g \in {IngestPotcar(st.files, st.potcars, st.pk, file)}} : TRUE

\* Faulty variant: stop_if_existing is not looked at.
UploadFileNeverStops(st, file, stop_if_existing) ==
    CHOOSE r \in
        {IF g.err # "none"
         THEN [st EXCEPT !.files = g.files, !.potcars = g.potcars, !.pk = g.pk, !.err = g.err]
         ELSE [files |-> g.files, potcars |-> g.potcars, pk |-> g.pk,
               members |-> st.members \cup {g.file_node.pk},
               num_uploaded |-> st.num_uploaded + (IF g.created THEN 1 ELSE 0),
               err |-> "none"] :
         g \in {IngestPotcar(st.files, st.potcars, st.pk, file)}} : TRUE

\* One file of the folder.  A file that is not stored is read into the Db and added
\* to the family; a file that is stored already stops the upload when
\* stop_if_existing is set and is added to the family otherwise.  st is the Db with
\* the members and the number of new files so far.
UploadFile(st, file, stop_if_existing) ==
    IF Exists(st.files, [md5 |-> Md5File(file)])
    THEN IF stop_if_existing
         THEN [st EXCEPT !.err = "DuplicateUpload"]
         ELSE CHOOSE r \in
                  {IF f.err # "none"
                   THEN [st EXCEPT !.err = f.err]
                   ELSE [st EXCEPT !.members = @ \cup {f.node.pk}] :
                   f \in {Find(st.files, [md5 |-> Md5File(file)])}} : TRUE
    ELSE CHOOSE r \in
             {IF g.err # "none"
              THEN [st EXCEPT !.files = g.files, !.potcars = g.potcars, !.pk = g.pk,
                              !.err = g.err]
              ELSE [files |-> g.files, potcars |-> g.potcars, pk |-> g.pk,
                    members |-> st.members \cup {g.file_node.pk},
                    num_uploaded |-> st.num_uploaded + 1, err |-> "none"] :
              g \in {IngestPotcar(st.files, st.potcars, st.pk, file)}} : TRUE

\* Faulty variant: the files after the one that fails are uploaded too.
RECURSIVE UploadFilesGoesOn(_, _, _)
UploadFilesGoesOn(st, folder, stop_if_existing) ==
    IF folder = <<>> THEN st
    ELSE UploadFilesGoesOn(
             CHOOSE r \in {[u EXCEPT !.err = IF st.err # "none" THEN st.err ELSE u.err] :
                           u \in {UploadFile([st EXCEPT !.err = "none"], Head(folder),
                                             stop_if_existing)}} : TRUE,
             Tail(folder), stop_if_existing)

\* The files of a folder are taken one after the other, up to the first that fails.
RECURSIVE UploadFiles(_, _, _)
UploadFiles(st, folder, stop_if_existing) ==
    IF folder = <<>> \/ st.err # "none" THEN st
    ELSE UploadFiles(UploadFile(st, Head(folder), stop_if_existing), Tail(folder),
                     stop_if_existing)

\* upload_potcar_family(folder, group_name, group_description, stop_if_existing):
\* a group of that name which exists and is not empty is an error; otherwise the
\* group is created or taken, its description is overwritten, the files are
\* uploaded and become its members.
UploadPotcarFamily(files, potcars, pk, groups, folder, group_name, group_description, stop_if_existing) ==
    IF \E g \in groups : g.name = group_name /\ g.members # {}
    THEN [files |-> files, potcars |-> potcars, pk |-> pk, groups |-> groups,
          err |-> "UniquenessError", num_found |-> 0, num_uploaded |-> 0]
    ELSE CHOOSE r \in
             {[files |-> st.files, potcars |-> st.potcars, pk |-> st.pk,
               groups |-> {g \in groups : g.name # group_name}
                              \cup {[name |-> group_name, description |-> group_description,
                                     members |-> st.members]},
               err |-> st.err, num_found |-> Len(folder), num_uploaded |-> st.num_uploaded] :
              st \in {UploadFiles([files |-> files, potcars |-> potcars, pk |-> pk,
                                   members |-> {}, num_uploaded |-> 0, err |-> "none"],
                                  folder, stop_if_existing)}} : TRUE

\* Faulty variant: a node that is a member of the family already is refused.
AddToFamilyOnce(groups, group_name, group_description, pk) ==
    IF \E g \in groups : g.name = group_name /\ pk \in g.members
    THEN [groups |-> groups, err |-> "UniquenessError"]
    ELSE [groups |-> {g \in groups : g.name # group_name}
                        \cup {[name |-> group_name, description |-> group_description,
                               members |-> {pk}]},
          err |-> "none"]

\* A PotcarFileData is added to the family it is parsed to: an existing family gets
\* the node as a member, which it may be already; a family that does not exist is
\* created with the description.
AddToFamily(groups, group_name, group_description, pk) ==
    IF \E g \in groups : g.name = group_name
    THEN [groups |-> {IF g.name = group_name THEN [g EXCEPT !.members = @ \cup {pk}] ELSE g :
                         g \in groups},
          err |-> "none"]
    ELSE [groups |-> groups \cup {[name |-> group_name, description |-> group_description,
                                   members |-> {pk}]},
          err |-> "none"]

\* Reading a POTCAR file into the Db with a family given to parse to: get or create
\* the PotcarFileData, add it to the family, return the corresponding PotcarData.
IngestIntoFamily(files, potcars, pk, groups, filepath, group_name, group_description) ==
    CHOOSE r \in
        {IF f.err # "none"
         THEN [ing |-> CorrespondingPotcar(f), groups |-> groups, err |-> f.err]
         ELSE CHOOSE s \in {[ing |-> c, groups |-> a.groups,
                             err |-> IF a.err # "none" THEN a.err ELSE c.err] :
                            a \in {AddToFamily(groups, group_name, group_description, f.node.pk)},
                            c \in {CorrespondingPotcar(f)}} : TRUE :
         f \in {FileGetOrCreate(files, potcars, pk, filepath)}} : TRUE

\* Faulty variant: all members of the family are returned, whatever their element.
GetPotcarsDictAllMembers(files, groups, elements, family_name) ==
    IF \E e \in elements :
           ~ \E f \in GroupNodes(files, GetPotcarGroup(groups, family_name)) : f.element = e
    THEN [err |-> "MissingElement", out |-> {}]
    ELSE [err |-> "none", out |-> GroupNodes(files, GetPotcarGroup(groups, family_name))]

\* get_potcars_dict(elements, family_name): the members of the family for the
\* elements, which must all have a member.
GetPotcarsDict(files, groups, elements, family_name) ==
    IF \E e \in elements :
           ~ \E f \in GroupNodes(files, GetPotcarGroup(groups, family_name)) : f.element = e
    THEN [err |-> "MissingElement", out |-> {}]
    ELSE [err |-> "none",
          out |-> {f \in GroupNodes(files, GetPotcarGroup(groups, family_name)) :
                      f.element \in elements}]

(***************************************************************************)
(* INCAR files.  Text is a sequence of characters; a value of a parameter  *)
(* is a string, a bool, a number, None or a list of values.                *)
(***************************************************************************)
\* Most entries of a parameter dictionary.
MaxEntries == 2

\* The characters that occur, in the order of their codes.
Ascii ==
    <<"\n", " ", ".", "0", "1", "2", "3", "4", "5", "6", "7", "8", "9", "=",
      "A", "B", "C", "D", "E", "F", "G", "H", "I", "J", "K", "L", "M",
      "N", "O", "P", "Q", "R", "S", "T", "U", "V", "W", "X", "Y", "Z",
      "a", "b", "c", "d", "e", "f", "g", "h", "i", "j", "k", "l", "m",
      "n", "o", "p", "q", "r", "s", "t", "u", "v", "w", "x", "y", "z">>

Code(c) == CHOOSE i \in 1..Len(Ascii) : Ascii[i] = c

\* str.upper() of one character and of a string
UpperChar(c) == IF Code(c) >= Code("a") THEN Ascii[Code(c) - Code("a") + Code("A")] ELSE c

Upper(s) == [i \in 1..Len(s) |-> UpperChar(s[i])]

\* How strings compare: by the codes of their characters, a prefix first.
RECURSIVE StrLess(_, _)
StrLess(a, b) ==
    IF b = <<>> THEN FALSE
    ELSE IF a = <<>> THEN TRUE
    ELSE IF Head(a) # Head(b) THEN Code(Head(a)) < Code(Head(b))
    ELSE StrLess(Tail(a), Tail(b))

\* '{}'.format(n) of a number that is not negative
RECURSIVE Digits(_)
Digits(n) ==
    IF n < 10 THEN <<Ascii[Code("0") + n]>>
    ELSE Digits(n \div 10) \o <<Ascii[Code("0") + (n % 10)]>>

PyStr(s) == [type |-> "str", v |-> s]
PyBool(b) == [type |-> "bool", v |-> b]
PyInt(n) == [type |-> "int", v |-> n]
PyNone == [type |-> "none", v |-> <<>>]
PyList(l) == [type |-> "list", v |-> l]

\* len(np.array(value).shape)
RECURSIVE Dim(_)
Dim(value) ==
    IF value.type # "list" THEN 0
    ELSE IF value.v = <<>> THEN 1
    ELSE 1 + Dim(value.v[1])

\* sep.join(strings)
RECURSIVE Join(_, _)
Join(sep, strings) ==
    IF strings = <<>> THEN <<>>
    ELSE IF Len(strings) = 1 THEN strings[1]
    ELSE strings[1] \o sep \o Join(sep, Tail(strings))

\* _incarify(value) of a value of at most two dimensions; None is formatted as 'None'
RECURSIVE Incarify(_)
Incarify(value) ==
    CASE value.type = "str" -> value.v
      [] value.type = "list" /\ Dim(value) = 1 ->
            Join(<<" ">>, [i \in 1..Len(value.v) |-> Incarify(value.v[i])])
      [] value.type = "list" /\ Dim(value) = 2 ->
            Join(<<"\n">>, [i \in 1..Len(value.v) |-> Incarify(value.v[i])])
      [] value.type = "bool" ->
            IF value.v THEN <<".", "T", "r", "u", "e", ".">>
            ELSE <<".", "F", "a", "l", "s", "e", ".">>
      [] value.type = "int" -> Digits(value.v)
      [] OTHER -> <<"N", "o", "n", "e">>

\* Faulty variant: the key is written as it is in the dictionary.
IncarItemKeyAsIs(key, value) ==
    IF Dim(value) > 2
    THEN [err |-> "TypeError", out |-> <<>>]
    ELSE [err |-> "none", out |-> key \o <<" ", "=", " ">> \o Incarify(value)]

\* _incar_item(key, value): '{key} = {value}' with key.upper() and _incarify(value),
\* which raises TypeError for more than two dimensions
IncarItem(key, value) ==
    IF Dim(value) > 2
    THEN [err |-> "TypeError", out |-> <<>>]
    ELSE [err |-> "none", out |-> Upper(key) \o <<" ", "=", " ">> \o Incarify(value)]

\* sorted(incar_dict.iteritems()): the keys of the items, least first
RECURSIVE SortedKeys(_)
SortedKeys(keys) ==
    IF keys = {} THEN <<>>
    ELSE <<CHOOSE k \in keys : \A o \in keys \ {k} : StrLess(k, o)>>
             \o SortedKeys(keys \ {CHOOSE k \in keys : \A o \in keys \ {k} : StrLess(k, o)})

\* The loop of dict_to_incar over the keys that are left.
RECURSIVE IncarContent(_, _, _)
IncarContent(incar_dict, keys, incar_content) ==
    IF keys = <<>> THEN [err |-> "none", out |-> incar_content]
    ELSE IF IncarItem(Head(keys), incar_dict[Head(keys)]).err # "none"
         THEN [err |-> IncarItem(Head(keys), incar_dict[Head(keys)]).err, out |-> <<>>]
         ELSE IncarContent(incar_dict, Tail(keys),
                           incar_content \o IncarItem(Head(keys), incar_dict[Head(keys)]).out
                               \o <<"\n">>)

\* dict_to_incar(incar_dict)
DictToIncar(incar_dict) == IncarContent(incar_dict, SortedKeys(DOMAIN incar_dict), <<>>)

(***************************************************************************)
(* State.                                                                  *)
(***************************************************************************)
VARIABLES
    fileNodes,    \* the stored PotcarFileData nodes
    potcarNodes,  \* the stored PotcarData nodes
    nextPk,       \* the pk the next stored node gets
    last,         \* the last call made and what it returned
    procs,        \* per process: where it is in its PotcarFileData.get_or_create
    ingested,     \* history: the files whose ingest has succeeded
    groups,       \* the POTCAR families: name, description and the pks of the member nodes
    entity        \* a PotcarFileData node in memory, before and after its store()

vars == <<fileNodes, potcarNodes, nextPk, last, procs, ingested, groups, entity>>

db == <<fileNodes, potcarNodes, nextPk>>

\* The processes that use the Db at the same time.
Procs == {"a", "b"}

Idle == [pc |-> "idle", filepath |-> <<>>, node |-> NoNode, created |-> FALSE, err |-> "none"]

\* Whether a call of op on arg repeats the call before it, which succeeded.
Again(op, arg) == last.op = op /\ last.arg = arg /\ last.err = "none"

Init ==
    /\ fileNodes = {}
    /\ potcarNodes = {}
    /\ nextPk = 1
    /\ last = Call("none", <<>>, "none", FALSE, NoNode, <<>>, FALSE)
    /\ procs = [i \in Procs |-> Idle]
    /\ ingested = {}
    /\ groups = {}
    /\ entity = EmptyNode

\* ingest(filepath): PotcarFileData.get_or_create, then the corresponding PotcarData
Ingest(filepath) ==
    \E r \in {IngestPotcar(fileNodes, potcarNodes, nextPk, filepath)} :
           /\ r.pk = nextPk \/ nextPk <= MaxPk
           /\ ingested' = IF r.err = "none" THEN ingested \cup {filepath} ELSE ingested
           /\ fileNodes' = r.files
           /\ potcarNodes' = r.potcars
           /\ nextPk' = r.pk
           /\ last' = Call("ingest", filepath, r.err, r.created, r.node, r.file_node,
                           Again("ingest", filepath))
           /\ UNCHANGED <<procs, groups, entity>>

\* PotcarFileData(file=filepath).store()
Store(filepath) ==
    \E r \in {FileStore(fileNodes, potcarNodes, nextPk, AddFile(filepath))} :
           /\ r.pk = nextPk \/ nextPk <= MaxPk
           /\ fileNodes' = r.files
           /\ potcarNodes' = r.potcars
           /\ nextPk' = r.pk
           /\ last' = Call("store", filepath, r.err, r.err = "none", r.node, <<>>,
                           Again("store", filepath))
           /\ UNCHANGED <<procs, ingested, groups, entity>>

\* A stored PotcarFileData node is deleted from the Db and from the families it is
\* a member of; PotcarData nodes stay.
Remove(file_node) ==
    /\ fileNodes' = fileNodes \ {file_node}
    /\ groups' = {[g EXCEPT !.members = @ \ {file_node.pk}] : g \in groups}
    /\ UNCHANGED <<potcarNodes, nextPk, procs, ingested, entity>>
    /\ last' = Call("remove", file_node, "none", FALSE, NoNode, <<>>, FALSE)

\* Faulty variant: a PotcarData whose PotcarFileData is not found is deleted.
RecoverFullForgets(potcar_node) ==
    /\ \E r \in {FindFileNode(fileNodes, potcar_node)} :
           /\ last' = Call("find_file_node", potcar_node, r.err, FALSE, r.node, <<>>, FALSE)
           /\ potcarNodes' = IF r.err = "none" THEN potcarNodes ELSE potcarNodes \ {potcar_node}
    /\ UNCHANGED <<fileNodes, nextPk, procs, ingested, groups, entity>>

\* file_node.get_file_obj()
GetFileObjCall(file_node) ==
    /\ last' = Call("get_file_obj", file_node, "none", FALSE, NoNode, GetFileObj(file_node), FALSE)
    /\ UNCHANGED <<db, procs, ingested, groups, entity>>

\* potcar_node.find_file_node()
RecoverFull(potcar_node) ==
    /\ \E r \in {FindFileNode(fileNodes, potcar_node)} :
           last' = Call("find_file_node", potcar_node, r.err, FALSE, r.node, <<>>, FALSE)
    /\ UNCHANGED <<db, procs, ingested, groups, entity>>

\* entity = PotcarFileData()
NewNode ==
    /\ entity' = EmptyNode
    /\ last' = Call("new", <<>>, "none", FALSE, EmptyNode, <<>>, FALSE)
    /\ UNCHANGED <<db, procs, ingested, groups>>

\* entity.add_file(src)
AddFileCall(src) ==
    /\ \E r \in {NodeAddFile(entity, src)} :
           /\ entity' = r.node
           /\ last' = Call("add_file", src, r.err, FALSE, r.node, <<>>, FALSE)
    /\ UNCHANGED <<db, procs, ingested, groups>>

\* entity.store(); a node without a file has no md5 to look for
StoreNode ==
    /\ IF entity.archive = <<>> \/ entity.pk # Unstored
       THEN /\ last' = Call("store_node", entity, "AttributeError", FALSE, entity, <<>>, FALSE)
            /\ UNCHANGED <<db, entity>>
       ELSE \E r \in {FileStore(fileNodes, potcarNodes, nextPk, entity)} :
                /\ r.pk = nextPk \/ nextPk <= MaxPk
                /\ fileNodes' = r.files
                /\ potcarNodes' = r.potcars
                /\ nextPk' = r.pk
                /\ entity' = r.node
                /\ last' = Call("store_node", entity, r.err, r.err = "none", r.node, <<>>, FALSE)
    /\ UNCHANGED <<procs, ingested, groups>>

Nodes(cls) == IF cls = "PotcarFileData" THEN fileNodes ELSE potcarNodes

\* cls.find(**kwargs)
FindCall(cls, kwargs) ==
    /\ \E r \in {Find(Nodes(cls), kwargs)} :
           last' = Call("find", <<cls, kwargs>>, r.err, FALSE, r.node, <<>>, FALSE)
    /\ UNCHANGED <<db, procs, ingested, groups, entity>>

\* cls.exists(**kwargs)
ExistsCall(cls, kwargs) ==
    /\ last' = Call("exists", <<cls, kwargs>>, "none", FALSE, NoNode,
                    Exists(Nodes(cls), kwargs), FALSE)
    /\ UNCHANGED <<db, procs, ingested, groups, entity>>

\* MultiPotcarIo(sources).write(tempfile)
Write(sources) ==
    /\ \E potcars \in {[i \in 1..Len(sources) |-> Resolve(fileNodes, sources[i])]} :
           \E r \in {MultiWrite(potcars)} :
               last' = Call("write", potcars, r.err, FALSE, NoNode, r.out, FALSE)
    /\ UNCHANGED <<db, procs, ingested, groups, entity>>

\* MultiPotcarIo.read(tempfile) of the file just written
Read ==
    /\ last.op = "write"
    /\ last.err = "none"
    /\ last' = Call("read", last.arg, "none", FALSE, NoNode, MultiRead(fileNodes, last.out), FALSE)
    /\ UNCHANGED <<db, procs, ingested, groups, entity>>

\* PotcarIo.from_(source)
FromCall(source) ==
    \E r \in {PotcarIoFrom(fileNodes, potcarNodes, nextPk, source)} :
           /\ r.pk = nextPk \/ nextPk <= MaxPk
           /\ ingested' = IF source.kind = "path" /\ r.err = "none"
                           THEN ingested \cup {source.of} ELSE ingested
           /\ fileNodes' = r.files
           /\ potcarNodes' = r.potcars
           /\ nextPk' = r.pk
           /\ last' = Call("from_", source, r.err, r.pk # nextPk, NoNode, r.potcar, FALSE)
           /\ UNCHANGED <<procs, groups, entity>>

\* PotcarIo.from_(first) == PotcarIo.from_(second)
Compare(first, second) ==
    \E r1 \in {PotcarIoFrom(fileNodes, potcarNodes, nextPk, first)} :
        \E r2 \in {PotcarIoFrom(r1.files, r1.potcars, r1.pk, second)} :
           /\ r2.pk = nextPk \/ nextPk <= MaxPk
           /\ r1.err = "none"
           /\ r2.err = "none"
           /\ ingested' = ingested \cup {s.of : s \in {s \in {first, second} : s.kind = "path"}}
           /\ fileNodes' = r2.files
           /\ potcarNodes' = r2.potcars
           /\ nextPk' = r2.pk
           /\ last' = Call("eq", <<first, second>>, "none", r2.pk # nextPk, NoNode,
                           PotcarIoEq(r1.potcar, r2.potcar), FALSE)
           /\ UNCHANGED <<procs, groups, entity>>

\* The keyword arguments the queries are called with.
Queries ==
    {[element |-> AddFile(p).element] : p \in Payloads}
        \cup {[md5 |-> Md5File(MkPotcar(InD, "PE", 1))], [functional |-> FunctionalTags["PE"]]}

Classes == {"PotcarFileData", "PotcarData"}

\* What a MultiPotcarIo is made from: stored PotcarData nodes.
Sources == {[kind |-> "potcar_node", of |-> n] : n \in potcarNodes}

SourceLists == UNION {[1..k -> Sources] : k \in 0..MaxW}

Next ==
    \/ \E p \in Payloads : Ingest(p)
    \/ \E p \in Payloads : Store(p)
    \/ \E n \in fileNodes : Remove(n)
    \/ \E n \in potcarNodes : RecoverFull(n)
    \/ \E cls \in Classes, kwargs \in Queries : FindCall(cls, kwargs)
    \/ \E cls \in Classes, kwargs \in Queries : ExistsCall(cls, kwargs)
    \/ \E sources \in SourceLists : Write(sources)
    \/ Read

Spec == Init /\ [][Next]_vars

(***************************************************************************)
(* Several processes.  Each runs PotcarFileData.get_or_create on a file;   *)
(* every query (exists, find) and every insert is one step on the Db, and  *)
(* the steps of the processes interleave.                                  *)
(***************************************************************************)
Goto(i, pc) == procs' = [procs EXCEPT ![i].pc = pc]

Raise(i, err) == procs' = [procs EXCEPT ![i].pc = "done", ![i].err = err]

\* get_or_create(filepath) is called
Start(i, filepath) ==
    /\ procs[i].pc = "idle"
    /\ nextPk <= MaxPk
    /\ procs' = [procs EXCEPT ![i] = [Idle EXCEPT !.pc = "get_or_create", !.filepath = filepath]]
    /\ UNCHANGED <<db, last, ingested, groups, entity>>

\* get_or_create: if cls.exists(md5=md5) ... else node = cls(file=filepath)
FileExistsStep(i) ==
    /\ procs[i].pc = "get_or_create"
    /\ IF Exists(fileNodes, [md5 |-> Md5File(procs[i].filepath)])
       THEN procs' = [procs EXCEPT ![i].pc = "file_find", ![i].created = FALSE]
       ELSE procs' = [procs EXCEPT ![i].pc = "potcar_get_or_create", ![i].created = TRUE,
                                   ![i].node = AddFile(procs[i].filepath)]
    /\ UNCHANGED <<db, last, ingested, groups, entity>>

\* get_or_create: node = cls.find(md5=md5); return
FileFindStep(i) ==
    /\ procs[i].pc = "file_find"
    /\ \E r \in {Find(fileNodes, [md5 |-> Md5File(procs[i].filepath)])} :
           procs' = [procs EXCEPT ![i].pc = "done", ![i].node = r.node, ![i].err = r.err]
    /\ UNCHANGED <<db, last, ingested, groups, entity>>

\* store -> PotcarData.get_or_create: if cls.exists(md5=file_node.md5)
PotcarExistsStep(i) ==
    /\ procs[i].pc = "potcar_get_or_create"
    /\ IF Exists(potcarNodes, [md5 |-> procs[i].node.md5])
       THEN Goto(i, "potcar_find")
       ELSE Goto(i, "potcar_verify_md5")
    /\ UNCHANGED <<db, last, ingested, groups, entity>>

\* PotcarData.get_or_create: node = cls.find(md5=file_node.md5)
PotcarFindStep(i) ==
    /\ procs[i].pc = "potcar_find"
    /\ IF Find(potcarNodes, [md5 |-> procs[i].node.md5]).err # "none"
       THEN Raise(i, Find(potcarNodes, [md5 |-> procs[i].node.md5]).err)
       ELSE Goto(i, "file_verify_md5")
    /\ UNCHANGED <<db, last, ingested, groups, entity>>

\* PotcarData.store -> verify_unique: if self.exists(md5=self.md5)
PotcarVerifyMd5Step(i) ==
    /\ procs[i].pc = "potcar_verify_md5"
    /\ IF Exists(potcarNodes, [md5 |-> procs[i].node.md5])
       THEN Raise(i, "UniquenessError")
       ELSE Goto(i, "potcar_verify_attrs")
    /\ UNCHANGED <<db, last, ingested, groups, entity>>

\* PotcarData.store -> verify_unique: if self.exists(**other_attrs)
PotcarVerifyAttrsStep(i) ==
    /\ procs[i].pc = "potcar_verify_attrs"
    /\ IF Exists(potcarNodes, OtherAttrs(procs[i].node))
       THEN Raise(i, "UniquenessError")
       ELSE Goto(i, "potcar_insert")
    /\ UNCHANGED <<db, last, ingested, groups, entity>>

\* PotcarData.store: super().store()
PotcarInsertStep(i) ==
    /\ procs[i].pc = "potcar_insert"
    /\ potcarNodes' = potcarNodes \cup {[SetPotcarFileNode(procs[i].node) EXCEPT !.pk = nextPk]}
    /\ nextPk' = nextPk + 1
    /\ Goto(i, "file_verify_md5")
    /\ UNCHANGED <<fileNodes, last, ingested, groups, entity>>

\* PotcarFileData.store -> verify_unique: if self.exists(md5=self.md5)
FileVerifyMd5Step(i) ==
    /\ procs[i].pc = "file_verify_md5"
    /\ IF Exists(fileNodes, [md5 |-> procs[i].node.md5])
       THEN Raise(i, "UniquenessError")
       ELSE Goto(i, "file_verify_attrs")
    /\ UNCHANGED <<db, last, ingested, groups, entity>>

\* PotcarFileData.store -> verify_unique: if self.exists(**other_attrs)
FileVerifyAttrsStep(i) ==
    /\ procs[i].pc = "file_verify_attrs"
    /\ IF Exists(fileNodes, OtherAttrs(procs[i].node))
       THEN Raise(i, "UniquenessError")
       ELSE Goto(i, "file_insert")
    /\ UNCHANGED <<db, last, ingested, groups, entity>>

\* PotcarFileData.store: super().store(); get_or_create returns node, created
FileInsertStep(i) ==
    /\ procs[i].pc = "file_insert"
    /\ fileNodes' = fileNodes \cup {[procs[i].node EXCEPT !.pk = nextPk]}
    /\ nextPk' = nextPk + 1
    /\ procs' = [procs EXCEPT ![i].pc = "done", ![i].node = [procs[i].node EXCEPT !.pk = nextPk]]
    /\ UNCHANGED <<potcarNodes, last, ingested, groups, entity>>

\* The caller has the result (or the exception) and the process is free again.
Return(i) ==
    /\ procs[i].pc = "done"
    /\ procs' = [procs EXCEPT ![i] = Idle]
    /\ UNCHANGED <<db, last, ingested, groups, entity>>

NextConcurrent ==
    \/ \E i \in Procs, p \in Payloads : Start(i, p)
    \/ \E i \in Procs : FileExistsStep(i)
    \/ \E i \in Procs : FileFindStep(i)
    \/ \E i \in Procs : PotcarExistsStep(i)
    \/ \E i \in Procs : PotcarFindStep(i)
    \/ \E i \in Procs : PotcarVerifyMd5Step(i)
    \/ \E i \in Procs : PotcarVerifyAttrsStep(i)
    \/ \E i \in Procs : PotcarInsertStep(i)
    \/ \E i \in Procs : FileVerifyMd5Step(i)
    \/ \E i \in Procs : FileVerifyAttrsStep(i)
    \/ \E i \in Procs : FileInsertStep(i)
    \/ \E i \in Procs : Return(i)

SpecConcurrent == Init /\ [][NextConcurrent]_vars

(***************************************************************************)
(* Potentials made from every kind of source: a path, the contents of a    *)
(* file, a stored PotcarFileData node, a stored PotcarData node.           *)
(***************************************************************************)
AllSources ==
    {[kind |-> "path", of |-> p] : p \in Payloads}
        \cup {[kind |-> "contents", of |-> p] : p \in Payloads}
        \cup {[kind |-> "file_node", of |-> n] : n \in fileNodes}
        \cup Sources

NextIo ==
    \/ \E p \in Payloads : Ingest(p)
    \/ \E source \in AllSources : FromCall(source)
    \/ \E first \in AllSources, second \in AllSources : Compare(first, second)

SpecIo == Init /\ [][NextIo]_vars

(***************************************************************************)
(* Families: files are read into the Db one by one or uploaded as the      *)
(* folder of a family with the command, and the potentials of a family are *)
(* asked for by element.                                                   *)
(***************************************************************************)
\* A call of upload_potcar_family made as the operation op with the arguments arg.
Upload(op, arg, folder, group_name, group_description, stop_if_existing) ==
    \E r \in {UploadPotcarFamily(fileNodes, potcarNodes, nextPk, groups, folder, group_name,
                                 group_description, stop_if_existing)} :
           /\ r.pk = nextPk \/ nextPk <= MaxPk
           /\ fileNodes' = r.files
           /\ potcarNodes' = r.potcars
           /\ nextPk' = r.pk
           /\ groups' = r.groups
           /\ ingested' = ingested \cup {GetFileObj(f) : f \in r.files \ fileNodes}
           /\ last' = Call(op, arg, r.err, r.pk # nextPk, NoNode,
                           [desc |-> group_description, num_found |-> r.num_found,
                            num_uploaded |-> r.num_uploaded], FALSE)
           /\ UNCHANGED <<procs, entity>>

\* upload_potcar_family(folder, group_name=..., group_description='Test family',
\*                      stop_if_existing=...)
UploadCall(folder, group_name, stop_if_existing) ==
    Upload("upload_potcar_family",
           [folder |-> folder, group_name |-> group_name, stop_if_existing |-> stop_if_existing],
           folder, group_name, "Test family", stop_if_existing)

\* verdi data vasp-potcar uploadfamily --path --name [--desc] [--stop-if-existing]:
\* the callback of --desc runs before the command does.
UploadFamilyCmd(path, name, desc, stop_if_existing) ==
    \E d \in {TryGrabDescription(groups, name, desc)} :
        IF d.err # "none"
        THEN /\ last' = Call("uploadfamily",
                             [path |-> path, name |-> name, desc |-> desc,
                              stop_if_existing |-> stop_if_existing],
                             d.err, FALSE, NoNode, <<>>, FALSE)
             /\ UNCHANGED <<db, procs, ingested, groups, entity>>
        ELSE Upload("uploadfamily",
                    [path |-> path, name |-> name, desc |-> desc,
                     stop_if_existing |-> stop_if_existing],
                    path, name, d.value[1], stop_if_existing)

\* ingest(filepath, family_name): a POTCAR file is read into the Db and into a family
IngestFamilyCall(filepath, family_name) ==
    \E r \in {IngestIntoFamily(fileNodes, potcarNodes, nextPk, groups, filepath, family_name,
                                "Test family")} :
           /\ r.ing.pk = nextPk \/ nextPk <= MaxPk
           /\ ingested' = IF r.ing.err = "none" THEN ingested \cup {filepath} ELSE ingested
           /\ fileNodes' = r.ing.files
           /\ potcarNodes' = r.ing.potcars
           /\ nextPk' = r.ing.pk
           /\ groups' = r.groups
           /\ last' = Call("ingest_family", <<filepath, family_name>>, r.err, r.ing.created,
                           r.ing.node, r.ing.file_node, Again("ingest_family", <<filepath, family_name>>))
           /\ UNCHANGED <<procs, entity>>

\* get_potcars_dict(elements=..., family_name=...)
GetPotcarsDictCall(elements, family_name) ==
    /\ \E g \in groups : g.name = family_name
    /\ \E r \in {GetPotcarsDict(fileNodes, groups, elements, family_name)} :
           last' = Call("get_potcars_dict", <<elements, family_name>>, r.err, FALSE, NoNode,
                        r.out, FALSE)
    /\ UNCHANGED <<db, procs, ingested, groups, entity>>

\* The files that are uploaded: one for As and two for In_d, of either functional.
FolderFiles == {MkPotcar(As, "PE", 1), MkPotcar(InD, "PE", 1), MkPotcar(InD, "CA", 1)}

\* A folder: files with different contents, in the order they are enumerated.
Folders ==
    UNION {{s \in [1..k -> FolderFiles] : \A i \in 1..k, j \in 1..k : i # j => s[i] # s[j]} :
           k \in 0..MaxFolder}

FamilyNames == {"PBE", "LDA"}

\* The elements of the files on disk, and one that no file is for.
ElementSets == SUBSET ({AddFile(p).element : p \in Payloads} \cup {"Ga"})

NextFamily ==
    \/ \E p \in Payloads : Ingest(p)
    \/ \E folder \in Folders, group_name \in FamilyNames, stop_if_existing \in BOOLEAN :
           UploadCall(folder, group_name, stop_if_existing)
    \/ \E elements \in ElementSets, family_name \in FamilyNames :
           GetPotcarsDictCall(elements, family_name)

SpecFamily == Init /\ [][NextFamily]_vars

(***************************************************************************)
(* The command line: folders of at most one file are uploaded, with and    *)
(* without a description.                                                  *)
(***************************************************************************)
\* --path: an empty folder or a folder with one file.
CmdFolders == {folder \in Folders : Len(folder) <= 1}

\* --desc: not given, given empty, given.
Descriptions == {<<>>, <<"">>, <<"old">>, <<"new">>}

NextCmd ==
    \E path \in CmdFolders, name \in FamilyNames, desc \in Descriptions,
       stop_if_existing \in BOOLEAN :
        UploadFamilyCmd(path, name, desc, stop_if_existing)

SpecCmd == Init /\ [][NextCmd]_vars

(***************************************************************************)
(* One PotcarFileData node in memory: created, given a file, stored.       *)
(***************************************************************************)
NextNode ==
    \/ NewNode
    \/ \E p \in Payloads : AddFileCall(p)
    \/ StoreNode

SpecNode == Init /\ [][NextNode]_vars

(***************************************************************************)
(* POTCAR files read into families one at a time, next to uploads of       *)
(* folders and removals.                                                   *)
(***************************************************************************)
NextIngestFamily ==
    \/ \E p \in FolderFiles, family_name \in FamilyNames : IngestFamilyCall(p, family_name)
    \/ \E folder \in CmdFolders, group_name \in FamilyNames : UploadCall(folder, group_name, FALSE)
    \/ \E n \in fileNodes : Remove(n)

SpecIngestFamily == Init /\ [][NextIngestFamily]_vars

(***************************************************************************)
(* The operations that only read, on a Db with families, some of whose     *)
(* files have been removed.                                                *)
(***************************************************************************)
NextRead ==
    \/ \E p \in FolderFiles : Ingest(p)
    \/ \E n \in fileNodes : Remove(n)
    \/ \E folder \in CmdFolders, group_name \in FamilyNames : UploadCall(folder, group_name, FALSE)
    \/ \E cls \in Classes, kwargs \in Queries : FindCall(cls, kwargs)
    \/ \E cls \in Classes, kwargs \in Queries : ExistsCall(cls, kwargs)
    \/ \E n \in potcarNodes : RecoverFull(n)
    \/ \E n \in fileNodes : GetFileObjCall(n)
    \/ \E elements \in ElementSets, family_name \in FamilyNames :
           GetPotcarsDictCall(elements, family_name)

SpecRead == Init /\ [][NextRead]_vars

(***************************************************************************)
(* dict_to_incar on parameter dictionaries of up to MaxEntries entries.    *)
(***************************************************************************)
\* The keys of the parameters.
IncarKeys ==
    {<<"s", "y", "s", "t", "e", "m">>, <<"S", "y", "s", "t", "e", "m">>,
     <<"i", "c", "h", "a", "r", "g">>, <<"k", "g", "a", "m", "m", "a">>}

\* Their values: a string, a bool, numbers, None, lists of one, two and three dimensions.
IncarValues ==
    {PyStr(<<"I", "n", "A", "s">>), PyBool(TRUE), PyInt(0), PyInt(11), PyNone,
     PyList(<<PyInt(1), PyBool(FALSE)>>),
     PyList(<<PyList(<<PyInt(1), PyInt(0)>>), PyList(<<PyInt(0), PyInt(1)>>)>>),
     PyList(<<PyList(<<PyList(<<PyInt(1)>>)>>)>>)}

IncarDicts ==
    UNION {[keys -> IncarValues] : keys \in {k \in SUBSET IncarKeys : Cardinality(k) <= MaxEntries}}

\* A dictionary of parameters has been made.
InitIncar ==
    /\ fileNodes = {}
    /\ potcarNodes = {}
    /\ nextPk = 1
    /\ \E incar_dict \in IncarDicts :
           last = Call("incar_dict", incar_dict, "none", FALSE, NoNode, <<>>, FALSE)
    /\ procs = [i \in Procs |-> Idle]
    /\ ingested = {}
    /\ groups = {}
    /\ entity = EmptyNode

\* dict_to_incar(incar_dict) of the dictionary that was made
DictToIncarCall ==
    /\ last.op = "incar_dict"
    /\ \E r \in {DictToIncar(last.arg)} :
           last' = Call("dict_to_incar", last.arg, r.err, FALSE, NoNode, r.out, FALSE)
    /\ UNCHANGED <<db, procs, ingested, groups, entity>>

NextIncar == DictToIncarCall

SpecIncar == InitIncar /\ [][NextIncar]_vars

(***************************************************************************)
(* Properties.                                                             *)
(***************************************************************************)
\* C1: after any sequence of ingests and stores made one after the other, the Db
\* holds at most one stored PotcarFileData per md5.
C1_OneFileNodePerMd5 ==
    \A a \in fileNodes, b \in fileNodes : a.md5 = b.md5 => a = b

\* A store() of a file whose md5 is stored already has been refused.
C1_Witness ==
    /\ last.op = "store"
    /\ last.err = "UniquenessError"
    /\ \E n \in fileNodes : n.md5 = Md5File(last.arg)

\* C2: when two processes run get_or_create on the same file at the same time, the Db
\* never holds two PotcarFileData or two PotcarData with that md5, and of two
\* processes that both went on to create the node one ends with a UniquenessError.
C2_ConcurrentIngestKeepsUnique ==
    /\ \A a \in fileNodes, b \in fileNodes : a.md5 = b.md5 => a = b
    /\ \A a \in potcarNodes, b \in potcarNodes : a.md5 = b.md5 => a = b
    /\ \A i \in Procs, j \in Procs :
           (/\ i # j
            /\ procs[i].pc = "done" /\ procs[j].pc = "done"
            /\ procs[i].filepath = procs[j].filepath
            /\ procs[i].created /\ procs[j].created)
           => (procs[i].err = "UniquenessError" \/ procs[j].err = "UniquenessError")

\* C3: after ingests made one after the other, every stored PotcarFileData has
\* exactly one stored PotcarData with the same md5.
C3_OnePotcarPerFileNode ==
    \A f \in fileNodes : Cardinality({n \in potcarNodes : n.md5 = f.md5}) = 1

\* An ingest has created a node while other nodes were stored already.
C3_Witness ==
    /\ last.op = "ingest"
    /\ last.err = "none"
    /\ last.created
    /\ Cardinality(fileNodes) >= 2

\* C4: an ingest of a file that follows a successful ingest of the same file returns
\* the same PotcarData, reports created = False and leaves both sets of stored nodes
\* as they were.
C4_IngestTwice ==
    [][(/\ last.op = "ingest"
        /\ last.err = "none"
        /\ last'.op = "ingest"
        /\ last'.arg = last.arg)
       => (/\ last'.err = "none"
           /\ last'.node = last.node
           /\ last'.created = FALSE
           /\ fileNodes' = fileNodes
           /\ potcarNodes' = potcarNodes)]_vars

\* The second of two ingests of the same file has returned.
C4_Witness ==
    /\ last.op = "ingest"
    /\ last.again
    /\ last.err = "none"
    /\ last.node \in potcarNodes

\* Whether two files have different md5 and the same title, functional, element, symbol.
SameMetadata(p1, p2) ==
    /\ Md5File(p1) # Md5File(p2)
    /\ OtherAttrs(AddFile(p1)) = OtherAttrs(AddFile(p2))

\* C5: an ingest of a file fails with UniquenessError when a file with another md5
\* and the same title, functional, element and symbol has been ingested before.
C5_MetadataCollisionFails ==
    (/\ last.op = "ingest"
     /\ \E p1 \in ingested : SameMetadata(p1, last.arg))
    => last.err = "UniquenessError"

\* Such an ingest has been made.
C5_Witness ==
    /\ last.op = "ingest"
    /\ \E p1 \in ingested : SameMetadata(p1, last.arg)
    /\ last.err = "UniquenessError"

\* C6: find_file_node of a stored PotcarData whose PotcarFileData is stored returns
\* a stored PotcarFileData with the md5 of the PotcarData, whatever else is stored.
C6_RecoverFullFindsFile ==
    (/\ last.op = "find_file_node"
     /\ \E f \in fileNodes : f.md5 = last.arg.md5)
    => (/\ last.err = "none"
        /\ last.node \in fileNodes
        /\ last.node.md5 = last.arg.md5)

\* find_file_node has returned a node while the PotcarFileData of another file was stored too.
C6_Witness ==
    /\ last.op = "find_file_node"
    /\ last.err = "none"
    /\ last.node.md5 = last.arg.md5
    /\ \E f \in fileNodes : f.md5 # last.arg.md5
    /\ \E p \in ingested : Md5File(p) = last.arg.md5

\* C7: find_file_node of a PotcarData whose PotcarFileData has been removed fails
\* with NotFound, and the PotcarData is still stored with its attributes; a removal
\* leaves the PotcarData of the removed file stored, with the file's five attributes.
C7_RecoverFullAfterRemoval ==
    /\ (/\ last.op = "find_file_node"
        /\ ~ \E f \in fileNodes : f.md5 = last.arg.md5)
       => (/\ last.err = "NotFound"
           /\ last.arg \in potcarNodes)
    /\ last.op = "remove"
       => \E n \in potcarNodes : GetAttrs(n) = GetAttrs(last.arg)

\* find_file_node has failed on the PotcarData of an ingested file that was removed.
C7_Witness ==
    /\ last.op = "find_file_node"
    /\ last.err = "NotFound"
    /\ last.arg \in potcarNodes
    /\ \E p \in ingested : Md5File(p) = last.arg.md5
    /\ ~ \E f \in fileNodes : f.md5 = last.arg.md5

\* The stored nodes of a class that have all the attribute values of a query.
Matching(cls, kwargs) ==
    {n \in (IF cls = "PotcarFileData" THEN fileNodes ELSE potcarNodes) :
        \A a \in DOMAIN kwargs : n[a] = kwargs[a]}

\* C8: find returns the matching node when exactly one stored node matches, fails
\* with NotFound when none does and with AmbiguousMatch when several do; exists is
\* true exactly when a node matches, so it is false exactly when find fails with NotFound.
C8_FindAndExists ==
    /\ last.op = "find" =>
           /\ Cardinality(Matching(last.arg[1], last.arg[2])) = 1
                  => (last.err = "none" /\ last.node \in Matching(last.arg[1], last.arg[2]))
           /\ Matching(last.arg[1], last.arg[2]) = {} => last.err = "NotFound"
           /\ Cardinality(Matching(last.arg[1], last.arg[2])) > 1 => last.err = "AmbiguousMatch"
    /\ last.op = "exists" => (last.out <=> Matching(last.arg[1], last.arg[2]) # {})
    /\ \A cls \in Classes, kwargs \in Queries :
           (~ Exists(Nodes(cls), kwargs)) <=> (Find(Nodes(cls), kwargs).err = "NotFound")

\* find has been called with attributes that two stored nodes have.
C8_Witness ==
    /\ last.op = "find"
    /\ last.err = "AmbiguousMatch"
    /\ Cardinality(Matching(last.arg[1], last.arg[2])) = 2

\* C9: reading back the POTCAR file written from a list of potentials that all have
\* contents gives a list of the same length with the same md5 at every position.
C9_RoundTrip ==
    last.op = "read"
    => (/\ Len(last.out) = Len(last.arg)
        /\ \A i \in 1..Len(last.arg) : last.out[i].md5 = last.arg[i].md5)

\* A file written from two different potentials has been read back.
C9_Witness ==
    /\ last.op = "read"
    /\ Len(last.arg) = 2
    /\ last.arg[1].md5 # last.arg[2].md5
    /\ Len(last.out) = 2

\* The POTCAR file on disk that has the given md5.
FileOfMd5(md5) == CHOOSE p \in Payloads : Md5File(p) = md5

\* The number of lines written before the i-th potential of a list.
RECURSIVE LinesBefore(_, _)
LinesBefore(potcars, i) ==
    IF i = 1 THEN 0
    ELSE LinesBefore(potcars, i - 1) + Len(FileOfMd5(potcars[i - 1].md5))

\* C10: a successful write produces the files of the potentials one after the other
\* in the order of the list, each file as it is on disk, and nothing else.
C10_WriteConcatenates ==
    (last.op = "write" /\ last.err = "none")
    => (/\ Len(last.out) = LinesBefore(last.arg, Len(last.arg) + 1)
        /\ \A i \in 1..Len(last.arg) :
               SubSeq(last.out, LinesBefore(last.arg, i) + 1, LinesBefore(last.arg, i + 1))
                   = FileOfMd5(last.arg[i].md5))

\* Two different potentials have been written to one file.
C10_Witness ==
    /\ last.op = "write"
    /\ last.err = "none"
    /\ Len(last.arg) = 2
    /\ last.arg[1].md5 # last.arg[2].md5
    /\ last.out # <<>>

\* Whether a source stands for the POTCAR file p: the path or the contents of p, the
\* stored PotcarFileData that holds p, the stored PotcarData with the attributes of
\* a stored PotcarFileData that holds p.
OfPayload(source, p) ==
    CASE source.kind \in {"path", "contents"} -> source.of = p
      [] source.kind = "file_node" -> source.of.archive = <<p>>
      [] source.kind = "potcar_node" ->
            \E f \in fileNodes : f.archive = <<p>> /\ GetAttrs(f) = GetAttrs(source.of)

\* C11: potentials made from the path, the contents, the PotcarFileData and the
\* PotcarData of the same file are equal, and potentials made from files with
\* different md5 are not: two potentials are equal exactly when the md5 of their
\* files are equal.
C11_EqualIffSameMd5 ==
    last.op = "eq"
    => \A p1 \in Payloads, p2 \in Payloads :
           (OfPayload(last.arg[1], p1) /\ OfPayload(last.arg[2], p2))
           => (last.out <=> Md5File(p1) = Md5File(p2))

\* A potential made from a path has been found equal to the one made from the
\* PotcarData of the same file.
C11_Witness ==
    /\ last.op = "eq"
    /\ last.arg[1].kind = "path"
    /\ last.arg[2].kind = "potcar_node"
    /\ OfPayload(last.arg[2], last.arg[1].of)
    /\ last.out = TRUE

\* C16: add_file on a node that holds a file already fails with the error that the
\* node can only hold one file, and the node keeps its file and its five attributes.
C16_AddFileHoldsOne ==
    [][(last'.op = "add_file" /\ entity.archive # <<>>)
       => (/\ last'.err = "AttributeError"
           /\ entity'.archive = entity.archive
           /\ GetAttrs(entity') = GetAttrs(entity))]_vars

\* add_file of another file has been refused on a node that holds a file.
C16_Witness ==
    /\ last.op = "add_file"
    /\ last.err = "AttributeError"
    /\ entity.archive # <<>>
    /\ entity.archive # <<last.arg>>

\* C19: a potential made from a stored PotcarData whose PotcarFileData has been
\* removed has no contents, and writing a list that holds it fails with
\* ContentUnavailable; it still has the md5 of the PotcarData and is equal to the
\* potential made from the contents of the file that was ingested.
C19_MetadataOnly ==
    last.op = "write"
    => \A i \in 1..Len(last.arg) : \A n \in potcarNodes :
           (n.md5 = last.arg[i].md5 /\ ~ \E f \in fileNodes : f.md5 = n.md5)
           => (/\ last.err = "ContentUnavailable"
               /\ last.out = <<>>
               /\ last.arg[i] = Resolve(fileNodes, [kind |-> "potcar_node", of |-> n])
               /\ last.arg[i].content = <<>>
               /\ \A p \in ingested :
                      Md5File(p) = n.md5
                      => PotcarIoEq(last.arg[i], Resolve(fileNodes, [kind |-> "contents", of |-> p])))

\* The write of a list of two potentials has failed: the first has its file, the
\* file of the second was removed while a file of the same element is stored.
C19_Witness ==
    /\ last.op = "write"
    /\ last.err = "ContentUnavailable"
    /\ Len(last.arg) = 2
    /\ last.arg[1].content # <<>>
    /\ last.arg[2].content = <<>>
    /\ \E n \in potcarNodes :
           /\ n.md5 = last.arg[2].md5
           /\ \E p \in ingested : Md5File(p) = n.md5
           /\ ~ \E f \in fileNodes : f.md5 = n.md5

\* C20: making a potential from a path or from contents whose md5 no stored
\* PotcarFileData has stores nothing: the stored PotcarFileData and the stored
\* PotcarData are the same after the call as before.
C20_FromStoresNothing ==
    [][(/\ last'.op = "from_"
        /\ last'.arg.kind \in {"path", "contents"}
        /\ ~ Exists(fileNodes, [md5 |-> Md5File(last'.arg.of)]))
       => (fileNodes' = fileNodes /\ potcarNodes' = potcarNodes)]_vars

\* The stored PotcarFileData nodes that hold the file p.
FileNodesOf(files, p) == {f \in files : f.archive = <<p>>}

FirstStored(files, folder) ==
    IF \E i \in 1..Len(folder) : Exists(files, [md5 |-> Md5File(folder[i])])
    THEN CHOOSE i \in 1..Len(folder) :
             /\ Exists(files, [md5 |-> Md5File(folder[i])])
             /\ \A j \in 1..(i - 1) : ~ Exists(files, [md5 |-> Md5File(folder[j])])
    ELSE 0

\* Whether the i-th file of the folder has the title, functional, element and symbol
\* of a file with another md5 that is stored or comes before it in the folder.
Collides(files, folder, i) ==
    \E q \in {GetFileObj(f) : f \in files} \cup {folder[j] : j \in 1..(i - 1)} :
        SameMetadata(q, folder[i])

\* Whether an upload gets as far as the i-th file of the folder.
ReachesFile(folder, group_name, i) ==
    /\ ~ \E g \in groups : g.name = group_name /\ g.members # {}
    /\ \A j \in 1..(i - 1) : ~ Collides(fileNodes, folder, j)

\* The pks of the stored nodes of the first n files of the folder.
PksOfFirst(files, folder, n) ==
    {f.pk : f \in UNION {FileNodesOf(files, folder[j]) : j \in 1..n}}

OneNewOneStored(folder, group_name, n, s) ==
    /\ Len(folder) = 2
    /\ {n, s} = {1, 2}
    /\ Exists(fileNodes, [md5 |-> Md5File(folder[s])])
    /\ ~ Exists(fileNodes, [md5 |-> Md5File(folder[n])])
    /\ ~ \E g \in groups : g.name = group_name /\ g.members # {}
    /\ ~ Collides(fileNodes, folder, n)

MembersOf(family_name) ==
    {f \in fileNodes : \E g \in groups : g.name = family_name /\ f.pk \in g.members}

C17_GivenDescriptionPassed ==
    [][last'.op = "uploadfamily"
       => /\ (last'.arg.desc = <<>> /\ \E g \in groups : g.name = last'.arg.name)
                 => (/\ last'.err # "MissingParameter"
                     /\ last'.out.desc = GetPotcarGroup(groups, last'.arg.name).description)
          /\ (last'.arg.desc = <<>> /\ ~ \E g \in groups : g.name = last'.arg.name)
                 => (/\ last'.err = "MissingParameter"
                     /\ groups' = groups
                     /\ fileNodes' = fileNodes
                     /\ potcarNodes' = potcarNodes)
          /\ last'.arg.desc # <<>>
                 => (/\ last'.err # "MissingParameter"
                     /\ last'.out.desc = last'.arg.desc[1])]_vars

\* C17, amended: a description that is given as the empty string is handled as one
\* that is not given; only a description that is not empty is passed on as it is.
C17_EmptyDescriptionNotGiven ==
    [][last'.op = "uploadfamily"
       => /\ (last'.arg.desc \in {<<>>, <<"">>} /\ \E g \in groups : g.name = last'.arg.name)
                 => (/\ last'.err # "MissingParameter"
                     /\ last'.out.desc = GetPotcarGroup(groups, last'.arg.name).description)
          /\ (last'.arg.desc \in {<<>>, <<"">>} /\ ~ \E g \in groups : g.name = last'.arg.name)
                 => (/\ last'.err = "MissingParameter"
                     /\ groups' = groups
                     /\ fileNodes' = fileNodes
                     /\ potcarNodes' = potcarNodes)
          /\ last'.arg.desc \notin {<<>>, <<"">>}
                 => (/\ last'.err # "MissingParameter"
                     /\ last'.out.desc = last'.arg.desc[1])]_vars

\* A file has been uploaded without --desc to a family that existed and was empty,
\* under the description the family had.
C17_Witness ==
    /\ last.op = "uploadfamily"
    /\ last.arg.desc = <<>>
    /\ last.err = "none"
    /\ last.created
    /\ \E g \in groups :
           g.name = last.arg.name /\ g.description = last.out.desc /\ g.members # {}

\* C18: an upload to a family that exists already takes that family: there is one
\* family of the name afterwards, the upload does not fail because the family exists
\* and has members (a UniquenessError comes from a file of the folder only), and the
\* members the family had are members afterwards.
C18_ExistingFamilyReused ==
    [][(/\ last'.op = "upload_potcar_family"
        /\ \E g \in groups : g.name = last'.arg.group_name)
       => (/\ Cardinality({g \in groups' : g.name = last'.arg.group_name}) = 1
           /\ last'.err = "UniquenessError"
                  => \E i \in 1..Len(last'.arg.folder) : Collides(fileNodes, last'.arg.folder, i)
           /\ GetPotcarGroup(groups, last'.arg.group_name).members
                  \subseteq GetPotcarGroup(groups', last'.arg.group_name).members)]_vars

\* C25: in every state reached by ingests and stores made one after the other, no
\* two stored PotcarFileData have the same title, functional, element and symbol,
\* and no two stored PotcarData have; a PotcarFileData and a PotcarData with the
\* same four attributes break nothing, each class being checked against its own nodes.
C25_TupleUniquePerClass ==
    /\ \A a \in fileNodes, b \in fileNodes : OtherAttrs(a) = OtherAttrs(b) => a = b
    /\ \A a \in potcarNodes, b \in potcarNodes : OtherAttrs(a) = OtherAttrs(b) => a = b

\* A store of a file with the four attributes of a stored file and another md5 has
\* been refused, while a PotcarFileData and a PotcarData with the same four
\* attributes are stored next to the nodes of another file.
C25_Witness ==
    /\ last.op \in {"ingest", "store"}
    /\ last.err = "UniquenessError"
    /\ \E f \in fileNodes : /\ f.md5 # Md5File(last.arg)
                            /\ OtherAttrs(f) = OtherAttrs(AddFile(last.arg))
                            /\ \E n \in potcarNodes : OtherAttrs(n) = OtherAttrs(f)
    /\ Cardinality(fileNodes) >= 2
    /\ Cardinality(potcarNodes) >= 2

\* C27: in every reachable state a stored PotcarData and a stored PotcarFileData
\* with the same md5 have the same title, functional, element and symbol, so that
\* the query find_file_node makes with all five attributes matches that
\* PotcarFileData and no other.
C27_SameMd5SameAttrs ==
    \A n \in potcarNodes, f \in fileNodes :
        n.md5 = f.md5
        => (/\ \A a \in MetaAttrs : n[a] = f[a]
            /\ QueryByAttrs(fileNodes, GetAttrs(n)) = {f})

\* find_file_node has returned the PotcarFileData of a PotcarData while the
\* PotcarFileData of another potential of the same element was stored.
C27_Witness ==
    /\ last.op = "find_file_node"
    /\ last.err = "none"
    /\ last.arg \in potcarNodes
    /\ last.node \in fileNodes
    /\ GetAttrs(last.node) = GetAttrs(last.arg)
    /\ \E f \in fileNodes : f # last.node /\ f.element = last.arg.element

\* C26: an ingest or a store that fails with UniquenessError, made while no other
\* call is running, leaves the Db as it was: the failed call has inserted no
\* PotcarFileData and no PotcarData, although store() gets or creates the
\* PotcarData before it verifies the PotcarFileData.
C26_FailedStoreChangesNothing ==
    [][(/\ last'.op \in {"ingest", "store"}
        /\ last'.err = "UniquenessError")
       => (/\ fileNodes' = fileNodes
           /\ potcarNodes' = potcarNodes
           /\ nextPk' = nextPk
           /\ groups' = groups)]_vars

\* A store has failed on a file for which get_or_create had to make the PotcarData:
\* no PotcarData has its md5, and the PotcarFileData with its four other attributes
\* has been removed, so that only the PotcarData of that file is in the way.
C26_Witness ==
    /\ last.op \in {"ingest", "store"}
    /\ last.err = "UniquenessError"
    /\ ~ \E n \in potcarNodes : n.md5 = Md5File(last.arg)
    /\ ~ \E f \in fileNodes : OtherAttrs(f) = OtherAttrs(AddFile(last.arg))
    /\ \E n \in potcarNodes : OtherAttrs(n) = OtherAttrs(AddFile(last.arg))

\* C24: a stored PotcarData is never made again: it stays stored over every later
\* ingest and every removal of a PotcarFileData, every later ingest of a file with
\* its md5 succeeds and returns that same PotcarData, also the ingest that stores the
\* PotcarFileData again after its removal, and no two stored PotcarData have its md5.
C24_PotcarNeverRederived ==
    [][\A n \in potcarNodes :
           /\ n \in potcarNodes'
           /\ \A o \in potcarNodes' : o.md5 = n.md5 => o = n
           /\ (last'.op = "ingest" /\ Md5File(last'.arg) = n.md5)
              => (last'.err = "none" /\ last'.node = n)]_vars

\* An ingest has stored the PotcarFileData of a file again after its removal and
\* has returned the PotcarData that was stored with the first PotcarFileData.
C24_Witness ==
    /\ last.op = "ingest"
    /\ last.err = "none"
    /\ last.created
    /\ last.out \in fileNodes
    /\ last.node \in potcarNodes
    /\ last.node.md5 = Md5File(last.arg)
    /\ last.out.pk > last.node.pk + 1

\* C23: within the ingest of a file whose md5 is not stored, the PotcarFileData is
\* inserted before the PotcarData: in every step that inserts a PotcarData, a
\* PotcarFileData with its md5 is stored already.
C23_FileInsertedBeforePotcar ==
    [][\A n \in potcarNodes' \ potcarNodes : \E f \in fileNodes : f.md5 = n.md5]_vars

\* The operations that only read.
ReadOps == {"find", "exists", "find_file_node", "get_file_obj", "get_potcars_dict"}

\* C22: find, exists, find_file_node, get_file_obj and get_potcars_dict change
\* nothing: the stored PotcarFileData, the stored PotcarData and the families with
\* their members are after the call what they were before it, also when it fails.
C22_ReadsChangeNothing ==
    [][last'.op \in ReadOps
       => (/\ fileNodes' = fileNodes
           /\ potcarNodes' = potcarNodes
           /\ nextPk' = nextPk
           /\ groups' = groups)]_vars

\* A read has failed on a Db that holds a family with a member and a PotcarData
\* whose PotcarFileData was removed.
C22_Witness ==
    /\ last.op \in ReadOps
    /\ last.err # "none"
    /\ \E g \in groups : GroupNodes(fileNodes, g) # {}
    /\ \E n \in potcarNodes : ~ \E f \in fileNodes : f.md5 = n.md5

RECURSIVE Lines(_, _)
Lines(text, current) ==
    IF text = <<>> THEN (IF current = <<>> THEN <<>> ELSE <<current>>)
    ELSE IF Head(text) = "\n" THEN <<current>> \o Lines(Tail(text), <<>>)
    ELSE Lines(Tail(text), Append(current, Head(text)))

\* The keys of a dictionary in ascending order.
Ascending(incar_dict) ==
    CHOOSE ks \in [1..Cardinality(DOMAIN incar_dict) -> DOMAIN incar_dict] :
        \A i \in DOMAIN ks, j \in DOMAIN ks : i < j => StrLess(ks[i], ks[j])

System == <<"s", "y", "s", "t", "e", "m">>

\* dict_to_incar({'system': 'InAs'}) is the one line 'SYSTEM = InAs'.
SystemInAs ==
    last.arg = (System :> PyStr(<<"I", "n", "A", "s">>))
    => Lines(last.out, <<>>)
           = <<<<"S", "Y", "S", "T", "E", "M", " ", "=", " ", "I", "n", "A", "s">>>>

OneLinePerEntry(incar_dict, ks, lines) ==
    /\ Len(lines) = Len(ks)
    /\ \A i \in DOMAIN ks :
           lines[i] = Upper(ks[i]) \o <<" ", "=", " ">> \o Incarify(incar_dict[ks[i]])

\* C28: dict_to_incar writes exactly one line 'KEY = value' for every entry of the
\* dictionary, the key in upper case, the lines in ascending order of the keys of the
\* dictionary; {'system': 'InAs'} gives the one line 'SYSTEM = InAs'.
C28_OneLinePerEntry ==
    (last.op = "dict_to_incar" /\ last.err = "none")
    => (/\ OneLinePerEntry(last.arg, Ascending(last.arg), Lines(last.out, <<>>))
        /\ SystemInAs)

\* The lines a value takes: one for each row of a 2-dimensional value, else one.
Rows(value) == IF Dim(value) = 2 THEN Len(value.v) ELSE 1

RowText(value, r) == IF Dim(value) = 2 THEN Incarify(value.v[r]) ELSE Incarify(value)

\* The lines that the entries before the i-th take.
RECURSIVE LinesBeforeEntry(_, _, _)
LinesBeforeEntry(incar_dict, ks, i) ==
    IF i = 1 THEN 0
    ELSE LinesBeforeEntry(incar_dict, ks, i - 1) + Rows(incar_dict[ks[i - 1]])

OneItemPerEntry(incar_dict, ks, lines) ==
    /\ Len(lines) = LinesBeforeEntry(incar_dict, ks, Len(ks) + 1)
    /\ \A i \in DOMAIN ks : \A r \in 1..Rows(incar_dict[ks[i]]) :
           lines[LinesBeforeEntry(incar_dict, ks, i) + r]
               = (IF r = 1 THEN Upper(ks[i]) \o <<" ", "=", " ">> ELSE <<>>)
                     \o RowText(incar_dict[ks[i]], r)

\* C28, amended: dict_to_incar fails with TypeError when a value has more than two
\* dimensions; else it writes 'KEY = value' for every entry, the key in upper case,
\* the entries in ascending order of the keys of the dictionary, where an entry is
\* one line unless its value has two dimensions, and then is one line for each row
\* of the value, the first of them after 'KEY = '; {'system': 'InAs'} gives the one
\* line 'SYSTEM = InAs'.
C28_OneItemPerEntry ==
    last.op = "dict_to_incar"
    => /\ last.err = (IF \E k \in DOMAIN last.arg : Dim(last.arg[k]) > 2
                      THEN "TypeError" ELSE "none")
       /\ last.err = "none"
          => (/\ OneItemPerEntry(last.arg, Ascending(last.arg), Lines(last.out, <<>>))
              /\ SystemInAs)

\* A dictionary of two entries has been written on three lines: the value of the
\* first entry has two rows, the key of the second is not in upper case.
C28_Witness ==
    /\ last.op = "dict_to_incar"
    /\ last.err = "none"
    /\ Cardinality(DOMAIN last.arg) = 2
    /\ Len(Lines(last.out, <<>>)) = 3
    /\ Dim(last.arg[Ascending(last.arg)[1]]) = 2
    /\ Upper(Ascending(last.arg)[2]) # Ascending(last.arg)[2]
====
